---- MODULE Spec2Model ----
(***************************************************************************)
(* PDF packet assembly (PDFService.generatePacket) of pdf-packet.          *)
(*                                                                         *)
(* One build is a chain of awaited steps: create the document, draw the    *)
(* cover page, draw a draft table of contents, then for every selected     *)
(* document sign a URL, fetch the bytes, parse them and copy the pages,    *)
(* and finally rewrite the table of contents and save.  The steps of two   *)
(* builds started on the shared pdfService instance interleave at the      *)
(* awaits.                                                                 *)
(***************************************************************************)
EXTENDS Integers, Sequences, FiniteSets, TLC

\* ------------------------------------------------------------------ bounds
MaxDocs == 3
MaxPages == 2
ConcMaxDocs == 2
MaxUploads == 2
MaxSelected == 2

\* --------------------------------------------------------------- constants
Calls == {1, 2}
Documents ==
    {[name |-> "Data Sheet A", filename |-> "a.pdf"],
     [name |-> "Safety Sheet B", filename |-> "b.pdf"],
     [name |-> "Install Guide C", filename |-> "c.pdf"]}
ConcDocuments == {d \in Documents : d.filename # "c.pdf"}
Locators == {d.filename : d \in Documents}
Absent == "<undefined>"
Faults == {"sign", "fetch", "parse"}

VARIABLES
    store,                    \* bucket 'documents': locator -> what resolving it yields
    formData,                 \* per call: the form data argument
    selectedDocuments,        \* per call: the ordered document list argument
    pc,                       \* per call: the await the call is suspended at
    pdfDoc,                   \* per call: the in-progress document (sequence of pages)
    currentPageNumber,        \* per call: the page cursor
    documentsWithPageNumbers, \* per call: the entry list with recorded page numbers
    docIndex,                 \* per call: position of the for-of loop
    documentUrl,              \* per call: signed URL of the current entry
    pdfBytes,                 \* per call: fetched bytes of the current entry
    pdf,                      \* per call: parsed source document of the current entry
    result,                   \* per call: the returned bytes
    documentsTable,           \* rows of the documents table
    clock,                    \* Date.now() ticks taken so far (names new objects and rows)
    ops,                      \* per admin operation: the await an upload or delete is at
    currentUser,              \* AuthService.currentUser
    localStorage,             \* the localStorage item 'auth_user'
    login,                    \* the login call in flight
    lastEffective,            \* the last of the successful logins and the logouts
    rendered                  \* what ProtectedRoute rendered last

adminVars == <<documentsTable, clock, ops>>

authVars == <<currentUser, localStorage, login, lastEffective, rendered>>

packetVars == <<formData, selectedDocuments, pc, pdfDoc, currentPageNumber,
                documentsWithPageNumbers, docIndex, documentUrl, pdfBytes, pdf, result>>

vars == <<store, formData, selectedDocuments, pc, pdfDoc, currentPageNumber,
          documentsWithPageNumbers, docIndex, documentUrl, pdfBytes, pdf, result,
          documentsTable, clock, ops, currentUser, localStorage, login,
          lastEffective, rendered>>

\* ------------------------------------------------------------ text helpers
DigitChars == <<"0", "1", "2", "3", "4", "5", "6", "7", "8", "9">>

RECURSIVE NumberToString(_)
NumberToString(n) ==
    IF n < 10 THEN <<DigitChars[n + 1]>>
    ELSE NumberToString(n \div 10) \o <<DigitChars[(n % 10) + 1]>>

DigitValue(ch) == CHOOSE d \in 0..9 : DigitChars[d + 1] = ch

RECURSIVE ParseNumber(_)
ParseNumber(text) ==
    IF Len(text) = 0 THEN 0
    ELSE 10 * ParseNumber(SubSeq(text, 1, Len(text) - 1)) + DigitValue(text[Len(text)])

Template(v) == IF v = Absent THEN "undefined" ELSE v

OrNA(v) == IF v = Absent THEN "N/A" ELSE v

LocaleDateString(d) ==
    CASE d = Absent -> "Invalid Date"
      [] d = "2025-11-27" -> "11/27/2025"
      [] OTHER -> "Invalid Date"

\* ------------------------------------------------------------------ pages
\* A page is where it came from (src, idx; "" and 0 for a page made by
\* addPage(A4)) plus the drawing operations painted on it so far, in order.
DrawRect(color) == [op |-> "rect", text |-> <<color>>, x |-> "0", row |-> 0]

DrawText(text, x, row) == [op |-> "text", text |-> text, x |-> x, row |-> row]

A4Page(draws) == [src |-> "", idx |-> 0, draws |-> draws]

SourcePage(f, k) == [src |-> f, idx |-> k, draws |-> <<>>]

PacketOptions(fd, documents) ==
    [title |-> <<Template(fd.productType), " Document Packet">>,
     projectNumber |-> fd.projectNumber,
     preparedBy |-> fd.preparedBy,
     submittedTo |-> fd.submittedTo,
     date |-> fd.date,
     documents |-> documents]

PlaceholderEntries(docs) ==
    [i \in 1..Len(docs) |-> [title |-> docs[i].name, pageNumber |-> 0]]

CoverPage(options) ==
    A4Page(<<DrawRect("background"),
             DrawText(options.title, "50", 0),
             DrawText(<<"Project: ", OrNA(options.projectNumber)>>, "50", 1),
             DrawText(<<"Prepared By: ", Template(options.preparedBy)>>, "50", 2),
             DrawText(<<"Submitted To: ", Template(options.submittedTo)>>, "50", 3),
             DrawText(<<"Date: ", LocaleDateString(options.date)>>, "50", 4)>>)

RECURSIVE TocEntryDraws(_, _)
TocEntryDraws(documents, index) ==
    IF index > Len(documents) THEN <<>>
    ELSE <<DrawText(<<documents[index].title>>, "50", index),
           DrawText(NumberToString(documents[index].pageNumber), "width-100", index)>>
         \o TocEntryDraws(documents, index + 1)

TableOfContentsPage(options) ==
    A4Page(<<DrawText(<<"Table of Contents">>, "50", 0)>>
           \o TocEntryDraws(options.documents, 1))

CreateCoverPageOn(doc, options) == Append(doc, CoverPage(options))

CreateTableOfContentsOn(doc, options) == Append(doc, TableOfContentsPage(options))

\* --------------------------------------------------- the document store
\* What resolving a locator yields: a fault at one of the three steps, or a
\* well-formed PDF with some number of pages.
Outcomes ==
    {[fault |-> "none", pages |-> n] : n \in 0..MaxPages}
    \cup {[fault |-> f, pages |-> 0] : f \in Faults}

SeqsUpTo(S, n) == UNION {[1..k -> S] : k \in 0..n}

CompleteFormData ==
    [productType |-> "structural-floor", projectNumber |-> "P-100",
     preparedBy |-> "Ann", submittedTo |-> "Bob", date |-> "2025-11-27"]

FormDataInputs ==
    {CompleteFormData,
     [CompleteFormData EXCEPT !.projectNumber = Absent],
     [CompleteFormData EXCEPT !.productType = Absent],
     [CompleteFormData EXCEPT !.preparedBy = Absent],
     [CompleteFormData EXCEPT !.submittedTo = Absent],
     [CompleteFormData EXCEPT !.date = Absent]}

NoUrl == <<>>

NoBytes == [wellFormed |-> FALSE, object |-> "", pages |-> 0]

NoResult == [returned |-> FALSE, pages |-> <<>>]

\* the locator generatePacket hands to getDocumentUrl: doc.document.filename
SignedLocator(d) == d.filename

\* supabase.storage.from('documents').createSignedUrl(filename, 3600)
CreateSignedUrl(st, filename) ==
    IF st[filename].fault = "sign"
    THEN [error |-> TRUE, signedUrl |-> NoUrl]
    ELSE [error |-> FALSE, signedUrl |-> <<"signed", filename>>]

\* fetch(url): response.ok and response.arrayBuffer()
Fetch(st, url) ==
    IF st[url[2]].fault = "fetch"
    THEN [ok |-> FALSE, body |-> NoBytes]
    ELSE [ok |-> TRUE,
          body |-> [wellFormed |-> st[url[2]].fault # "parse",
                    object |-> url[2],
                    pages |-> st[url[2]].pages]]

\* PDFDocument.load(pdfBytes): the pages of the source, in their own order
LoadPages(bytes) == [k \in 1..bytes.pages |-> SourcePage(bytes.object, k)]

\* pdfDoc.copyPages(pdf, pdf.getPageIndices()) and pdfDoc.addPage for each
AddCopiedPagesAfterFront(doc, pages) ==
    SubSeq(doc, 1, 2) \o pages \o SubSeq(doc, 3, Len(doc))

AddCopiedPages(doc, pages) == doc \o pages

\* ------------------------------------------------- locals of one invocation
\* currentPageNumber and documentsWithPageNumbers are declared inside
\* generatePacket: every invocation reads and writes its own.
CursorShared(c) == 1

CursorOf(c) == c

EntriesShared(c) == 1

EntriesOf(c) == c

StartCursor == 3

WithPageNumbers(docs) ==
    [i \in 1..Len(docs) |->
        [name |-> docs[i].name, filename |-> docs[i].filename, pageNumber |-> 0]]

RecordStartZeroBased(entries, i, cursor) ==
    [entries EXCEPT ![i].pageNumber = cursor - 1]

RecordStart(entries, i, cursor) == [entries EXCEPT ![i].pageNumber = cursor]

AdvanceCursorByOne(cursor, pages) == cursor + 1

AdvanceCursor(cursor, pages) == cursor + Len(pages)

\* the catch block logs and goes on: cursor and entry stay as they are
CursorAfterErrorAdvanced(cursor) == cursor + 1

CursorAfterError(cursor) == cursor

IsMerged(e) == e.pageNumber # 0

FinalEntriesMergedOnly(entries) ==
    LET kept == SelectSeq(entries, IsMerged)
    IN  [i \in 1..Len(kept) |->
            [title |-> kept[i].name, pageNumber |-> kept[i].pageNumber]]

FinalEntries(entries) ==
    [i \in 1..Len(entries) |->
        [title |-> entries[i].name, pageNumber |-> entries[i].pageNumber]]

\* tocPage.drawRectangle over the whole page, on pages[1]
ClearTocPage(doc) ==
    [doc EXCEPT ![2].draws = Append(@, DrawRect("white"))]

Save(doc) == [returned |-> TRUE, pages |-> doc]

\* the catch block ends the iteration: the for-of loop moves on to the next
\* entry, a failed entry is not tried again
IndexAfterErrorRetry(i) == i

IndexAfterError(i) == i + 1

\* where the for-of loop goes after entry i
LoopTargetFirstOnly(c, i) == "rewrite"

LoopTarget(c, i) == IF i < Len(selectedDocuments[c]) THEN "signing" ELSE "rewrite"

\* ----------------------------------------------------------------- Init
\* ------------------------------------------------ admin and session state
Ops == {1, 2}

NoOp == [pc |-> "idle", name |-> "", pages |-> 0, productType |-> "", path |-> "",
         id |-> 0, outcome |-> "none"]

NoUser == [id |-> "", email |-> ""]

NoItem == <<>>

NoLogin ==
    [pc |-> "idle", email |-> "", password |-> "", data |-> NoUser, hash |-> "",
     outcome |-> "none", changed |-> FALSE]

InitAdminIdle ==
    /\ documentsTable = {}
    /\ clock = 0
    /\ ops = [o \in Ops |-> NoOp]

InitAuthIdle ==
    /\ currentUser = NoUser
    /\ localStorage = NoItem
    /\ login = NoLogin
    /\ lastEffective = "none"
    /\ rendered = "nothing"

InitLocals ==
    /\ pdfDoc = [c \in Calls |-> <<>>]
    /\ currentPageNumber = [c \in Calls |-> 0]
    /\ documentsWithPageNumbers = [c \in Calls |-> <<>>]
    /\ docIndex = [c \in Calls |-> 0]
    /\ documentUrl = [c \in Calls |-> NoUrl]
    /\ pdfBytes = [c \in Calls |-> NoBytes]
    /\ pdf = [c \in Calls |-> <<>>]
    /\ result = [c \in Calls |-> NoResult]

\* one build: call 1 is made, call 2 never is
Init ==
    /\ store \in [Locators -> Outcomes]
    /\ formData = [c \in Calls |-> CompleteFormData]
    /\ \E docs \in SeqsUpTo(Documents, MaxDocs) :
          selectedDocuments = [c \in Calls |-> IF c = 1 THEN docs ELSE <<>>]
    /\ pc = [c \in Calls |-> IF c = 1 THEN "start" ELSE "off"]
    /\ InitLocals
    /\ InitAdminIdle
    /\ InitAuthIdle

\* one build whose form data may lack a field
InitMeta ==
    /\ store \in [Locators -> Outcomes]
    /\ \E fd \in FormDataInputs : formData = [c \in Calls |-> fd]
    /\ \E docs \in SeqsUpTo(Documents, 1) :
          selectedDocuments = [c \in Calls |-> IF c = 1 THEN docs ELSE <<>>]
    /\ pc = [c \in Calls |-> IF c = 1 THEN "start" ELSE "off"]
    /\ InitLocals
    /\ InitAdminIdle
    /\ InitAuthIdle

\* two builds on the shared pdfService instance, each with its own list;
\* the object c.pdf, which neither selects, is not in the bucket
InitConc ==
    /\ store \in {st \in [Locators -> Outcomes] :
                     st["c.pdf"] = [fault |-> "sign", pages |-> 0]}
    /\ formData = [c \in Calls |-> CompleteFormData]
    /\ selectedDocuments \in [Calls -> SeqsUpTo(ConcDocuments, ConcMaxDocs)]
    /\ pc = [c \in Calls |-> "start"]
    /\ InitLocals
    /\ InitAdminIdle
    /\ InitAuthIdle

\* -------------------------------------------------------------- actions
\* const pdfDoc = await PDFDocument.create()
CreateDocument(c) ==
    /\ pc[c] = "start"
    /\ pdfDoc' = [pdfDoc EXCEPT ![c] = <<>>]
    /\ pc' = [pc EXCEPT ![c] = "cover"]
    /\ UNCHANGED <<adminVars, authVars, store, formData, selectedDocuments, currentPageNumber,
                   documentsWithPageNumbers, docIndex, documentUrl, pdfBytes, pdf, result>>

\* await this.createCoverPage(pdfDoc, {...})
CreateCoverPage(c) ==
    /\ pc[c] = "cover"
    /\ pdfDoc' = [pdfDoc EXCEPT ![c] =
          CreateCoverPageOn(@, PacketOptions(formData[c],
                                             PlaceholderEntries(selectedDocuments[c])))]
    /\ pc' = [pc EXCEPT ![c] = "toc"]
    /\ UNCHANGED <<adminVars, authVars, store, formData, selectedDocuments, currentPageNumber,
                   documentsWithPageNumbers, docIndex, documentUrl, pdfBytes, pdf, result>>

\* await this.createTableOfContents(pdfDoc, {... pageNumber: 0 ...})
CreateDraftToc(c) ==
    /\ pc[c] = "toc"
    /\ pdfDoc' = [pdfDoc EXCEPT ![c] =
          CreateTableOfContentsOn(@, PacketOptions(formData[c],
                                                   PlaceholderEntries(selectedDocuments[c])))]
    /\ pc' = [pc EXCEPT ![c] = "accounting"]
    /\ UNCHANGED <<adminVars, authVars, store, formData, selectedDocuments, currentPageNumber,
                   documentsWithPageNumbers, docIndex, documentUrl, pdfBytes, pdf, result>>

\* let currentPageNumber = 3; const documentsWithPageNumbers = ...; loop entry
StartAccounting(c) ==
    /\ pc[c] = "accounting"
    /\ currentPageNumber' = [currentPageNumber EXCEPT ![CursorOf(c)] = StartCursor]
    /\ documentsWithPageNumbers' =
          [documentsWithPageNumbers EXCEPT ![EntriesOf(c)] =
              WithPageNumbers(selectedDocuments[c])]
    /\ docIndex' = [docIndex EXCEPT ![c] = 1]
    /\ pc' = [pc EXCEPT ![c] = LoopTarget(c, 0)]
    /\ UNCHANGED <<adminVars, authVars, store, formData, selectedDocuments, pdfDoc, documentUrl,
                   pdfBytes, pdf, result>>

\* the catch block of the loop body, then the next entry
SkipEntry(c) ==
    /\ currentPageNumber' =
          [currentPageNumber EXCEPT ![CursorOf(c)] = CursorAfterError(@)]
    /\ docIndex' = [docIndex EXCEPT ![c] = IndexAfterError(@)]
    /\ pc' = [pc EXCEPT ![c] = LoopTarget(c, IndexAfterError(docIndex[c]) - 1)]
    /\ documentUrl' = [documentUrl EXCEPT ![c] = NoUrl]
    /\ pdfBytes' = [pdfBytes EXCEPT ![c] = NoBytes]
    /\ pdf' = [pdf EXCEPT ![c] = <<>>]
    /\ UNCHANGED <<adminVars, authVars, store, formData, selectedDocuments, pdfDoc,
                   documentsWithPageNumbers, result>>

\* const documentUrl = await this.getDocumentUrl(doc.document.filename)
GetDocumentUrl(c) ==
    /\ pc[c] = "signing"
    /\ LET r == CreateSignedUrl(store, SignedLocator(selectedDocuments[c][docIndex[c]]))
       IN  IF r.error
           THEN SkipEntry(c)
           ELSE /\ documentUrl' = [documentUrl EXCEPT ![c] = r.signedUrl]
                /\ pc' = [pc EXCEPT ![c] = "fetching"]
                /\ UNCHANGED <<adminVars, authVars, store, formData, selectedDocuments, pdfDoc,
                               currentPageNumber, documentsWithPageNumbers, docIndex,
                               pdfBytes, pdf, result>>

\* const pdfBytes = await this.getPdfBytes(documentUrl)
GetPdfBytes(c) ==
    /\ pc[c] = "fetching"
    /\ LET response == Fetch(store, documentUrl[c])
       IN  IF ~response.ok
           THEN SkipEntry(c)
           ELSE /\ pdfBytes' = [pdfBytes EXCEPT ![c] = response.body]
                /\ pc' = [pc EXCEPT ![c] = "parsing"]
                /\ UNCHANGED <<adminVars, authVars, store, formData, selectedDocuments, pdfDoc,
                               currentPageNumber, documentsWithPageNumbers, docIndex,
                               documentUrl, pdf, result>>

\* const pdf = await PDFDocument.load(pdfBytes)
LoadPdf(c) ==
    /\ pc[c] = "parsing"
    /\ IF ~pdfBytes[c].wellFormed
       THEN SkipEntry(c)
       ELSE /\ pdf' = [pdf EXCEPT ![c] = LoadPages(pdfBytes[c])]
            /\ pc' = [pc EXCEPT ![c] = "copying"]
            /\ UNCHANGED <<adminVars, authVars, store, formData, selectedDocuments, pdfDoc,
                           currentPageNumber, documentsWithPageNumbers, docIndex,
                           documentUrl, pdfBytes, result>>

\* copyPages, addPage for each, doc.pageNumber = currentPageNumber,
\* currentPageNumber += pdf.getPageCount(); then the next entry
CopyPages(c) ==
    /\ pc[c] = "copying"
    /\ pdfDoc' = [pdfDoc EXCEPT ![c] = AddCopiedPages(@, pdf[c])]
    /\ documentsWithPageNumbers' =
          [documentsWithPageNumbers EXCEPT ![EntriesOf(c)] =
              RecordStart(@, docIndex[c], currentPageNumber[CursorOf(c)])]
    /\ currentPageNumber' =
          [currentPageNumber EXCEPT ![CursorOf(c)] = AdvanceCursor(@, pdf[c])]
    /\ docIndex' = [docIndex EXCEPT ![c] = @ + 1]
    /\ pc' = [pc EXCEPT ![c] = LoopTarget(c, docIndex[c])]
    /\ documentUrl' = [documentUrl EXCEPT ![c] = NoUrl]
    /\ pdfBytes' = [pdfBytes EXCEPT ![c] = NoBytes]
    /\ pdf' = [pdf EXCEPT ![c] = <<>>]
    /\ UNCHANGED <<adminVars, authVars, store, formData, selectedDocuments, result>>

\* clear pages[1], then await this.createTableOfContents(pdfDoc, {final numbers})
RewriteToc(c) ==
    /\ pc[c] = "rewrite"
    /\ pdfDoc' = [pdfDoc EXCEPT ![c] =
          CreateTableOfContentsOn(
              ClearTocPage(@),
              PacketOptions(formData[c],
                            FinalEntries(documentsWithPageNumbers[EntriesOf(c)])))]
    /\ pc' = [pc EXCEPT ![c] = "save"]
    /\ UNCHANGED <<adminVars, authVars, store, formData, selectedDocuments, currentPageNumber,
                   documentsWithPageNumbers, docIndex, documentUrl, pdfBytes, pdf, result>>

\* return await pdfDoc.save()
SavePacket(c) ==
    /\ pc[c] = "save"
    /\ result' = [result EXCEPT ![c] = Save(pdfDoc[c])]
    /\ pc' = [pc EXCEPT ![c] = "done"]
    /\ UNCHANGED <<adminVars, authVars, store, formData, selectedDocuments, pdfDoc, currentPageNumber,
                   documentsWithPageNumbers, docIndex, documentUrl, pdfBytes, pdf>>

\* the next step of call c
Step(c) ==
    \/ CreateDocument(c)
    \/ CreateCoverPage(c)
    \/ CreateDraftToc(c)
    \/ StartAccounting(c)
    \/ GetDocumentUrl(c)
    \/ GetPdfBytes(c)
    \/ LoadPdf(c)
    \/ CopyPages(c)
    \/ RewriteToc(c)
    \/ SavePacket(c)

Next == \E c \in Calls : Step(c)

Spec == Init /\ [][Next]_vars

\* one build in which every awaited request eventually returns or fails
SpecLive == Init /\ [][Next]_vars /\ \A c \in Calls : WF_vars(Step(c))

SpecMeta == InitMeta /\ [][Next]_vars

SpecConc == InitConc /\ [][Next]_vars

\* ------------------------------------------- generatePacket, run on its own
\* One iteration of the loop body for entry i, without any other call's steps
\* in between.  acc is <<document, cursor, entries>> as a record.
MergeEntry(st, acc, i) ==
    LET skipped == [acc EXCEPT !.cursor = CursorAfterError(@)]
        signed == CreateSignedUrl(st, SignedLocator(acc.entries[i]))
    IN  IF signed.error THEN skipped
        ELSE LET response == Fetch(st, signed.signedUrl)
             IN  IF ~response.ok \/ ~response.body.wellFormed THEN skipped
                 ELSE LET pages == LoadPages(response.body)
                      IN  [doc |-> AddCopiedPages(acc.doc, pages),
                           entries |-> RecordStart(acc.entries, i, acc.cursor),
                           cursor |-> AdvanceCursor(acc.cursor, pages)]

RECURSIVE MergeFrom(_, _, _)
MergeFrom(st, acc, i) ==
    IF i > Len(acc.entries) THEN acc
    ELSE MergeFrom(st, MergeEntry(st, acc, i), i + 1)

GeneratePacket(fd, docs, st) ==
    LET draft == PacketOptions(fd, PlaceholderEntries(docs))
        front == CreateTableOfContentsOn(CreateCoverPageOn(<<>>, draft), draft)
        merged == MergeFrom(st, [doc |-> front, entries |-> WithPageNumbers(docs),
                                 cursor |-> StartCursor], 1)
        final == CreateTableOfContentsOn(ClearTocPage(merged.doc),
                                         PacketOptions(fd, FinalEntries(merged.entries)))
    IN  [bytes |-> Save(final), cursor |-> merged.cursor, entries |-> merged.entries]

\* ------------------------------------------------ reading a saved packet
\* What a reader sees on a page: the drawings made after the last rectangle
\* that covers the whole page.
LastRect(draws) ==
    LET rects == {k \in 1..Len(draws) : draws[k].op = "rect"}
    IN  IF rects = {} THEN 0 ELSE CHOOSE k \in rects : \A m \in rects : m <= k

Visible(page) == SubSeq(page.draws, LastRect(page.draws) + 1, Len(page.draws))

IsHeading(d) == d.text = <<"Table of Contents">>

IsNumberColumn(d) == d.x = "width-100"

IsTitleColumn(d) == d.x = "50" /\ ~IsHeading(d)

IsTocPage(page) == Len(SelectSeq(Visible(page), IsHeading)) > 0

IsCoverPage(page) ==
    \E k \in 1..Len(Visible(page)) : Visible(page)[k].text[1] = "Prepared By: "

\* the listing of a table-of-contents page, read back from its drawings
TocListing(page) ==
    LET titles == SelectSeq(Visible(page), IsTitleColumn)
        numbers == SelectSeq(Visible(page), IsNumberColumn)
    IN  [i \in 1..Len(numbers) |->
            [title |-> titles[i].text[1], pageNumber |-> ParseNumber(numbers[i].text)]]

TocPositions(pages) == {p \in 1..Len(pages) : IsTocPage(pages[p])}

IsSourcePage(page) == page.src # ""

Body(pages) == SelectSeq(pages, IsSourcePage)

\* ----------------------------------------------- what the claims speak of
Resolves(st, d) == st[d.filename].fault = "none"

PageCount(st, d) == IF Resolves(st, d) THEN st[d.filename].pages ELSE 0

RECURSIVE PagesBefore(_, _, _)
PagesBefore(st, docs, i) ==
    IF i <= 1 THEN 0 ELSE PagesBefore(st, docs, i - 1) + PageCount(st, docs[i - 1])

TotalPages(st, docs) == PagesBefore(st, docs, Len(docs) + 1)

SourcePagesOf(st, d) == [k \in 1..PageCount(st, d) |-> [src |-> d.filename, idx |-> k, draws |-> <<>>]]

RECURSIVE ExpectedBody(_, _, _)
ExpectedBody(st, docs, i) ==
    IF i > Len(docs) THEN <<>>
    ELSE SourcePagesOf(st, docs[i]) \o ExpectedBody(st, docs, i + 1)

RECURSIVE OnlyResolving(_, _)
OnlyResolving(st, docs) ==
    IF docs = <<>> THEN <<>>
    ELSE (IF Resolves(st, Head(docs)) THEN <<Head(docs)>> ELSE <<>>)
         \o OnlyResolving(st, Tail(docs))

RECURSIVE MergedNumbers(_)
MergedNumbers(entries) ==
    IF entries = <<>> THEN <<>>
    ELSE (IF Resolves(store, Head(entries)) THEN <<Head(entries).pageNumber>> ELSE <<>>)
         \o MergedNumbers(Tail(entries))

Numbers(entries) == [i \in 1..Len(entries) |-> entries[i].pageNumber]

Done(c) == pc[c] = "done"

Recorded(c) == documentsWithPageNumbers[c]

\* ------------------------------------------------------------------ C1
\* C1 as stated: in a finished build every entry, failed ones included, has
\* recorded and drawn in the final table of contents the page number
\* 3 + the pages contributed by the entries before it, so at least 3.
C1_EveryEntryNumbered ==
    \A c \in Calls : Done(c) =>
        /\ TocPositions(result[c].pages) # {}
        /\ \A i \in 1..Len(selectedDocuments[c]) :
              /\ Recorded(c)[i].pageNumber = 3 + PagesBefore(store, selectedDocuments[c], i)
              /\ Recorded(c)[i].pageNumber >= 3
              /\ \A p \in TocPositions(result[c].pages) :
                    TocListing(result[c].pages[p])[i].pageNumber
                        = 3 + PagesBefore(store, selectedDocuments[c], i)

\* C1 amended: in a finished build every successfully merged entry has recorded
\* and drawn in the final table of contents the page number 3 + the pages
\* contributed by the entries before it (so at least 3); an entry whose
\* resolution failed has 0 recorded and drawn.
C1_MergedEntryNumbered ==
    \A c \in Calls : Done(c) =>
        /\ TocPositions(result[c].pages) # {}
        /\ \A i \in 1..Len(selectedDocuments[c]) :
              LET expected == IF Resolves(store, selectedDocuments[c][i])
                              THEN 3 + PagesBefore(store, selectedDocuments[c], i)
                              ELSE 0
              IN  /\ Recorded(c)[i].pageNumber = expected
                  /\ Resolves(store, selectedDocuments[c][i]) => Recorded(c)[i].pageNumber >= 3
                  /\ \A p \in TocPositions(result[c].pages) :
                        TocListing(result[c].pages[p])[i].pageNumber = expected

\* a finished build of [2 pages, failed, 1 page]: start pages 3, 0, 5
C1_Witness ==
    /\ Done(1)
    /\ Len(selectedDocuments[1]) = 3
    /\ PageCount(store, selectedDocuments[1][1]) = 2
    /\ ~Resolves(store, selectedDocuments[1][2])
    /\ PageCount(store, selectedDocuments[1][3]) = 1
    /\ Numbers(Recorded(1)) = <<3, 0, 5>>

\* ------------------------------------------------------------------ C2
\* C2: in a finished build the start page recorded for a successfully merged
\* document is the 1-based position of that document's first page in the
\* returned document (its pages lie there in a row), whatever mix of merged
\* and failed entries comes before it.
C2_StartIsPosition ==
    \A c \in Calls : Done(c) =>
        \A i \in 1..Len(selectedDocuments[c]) :
            LET d == selectedDocuments[c][i]
                n == PageCount(store, d)
                start == Recorded(c)[i].pageNumber
            IN  n >= 1 =>
                  /\ start >= 1
                  /\ start + n - 1 <= Len(result[c].pages)
                  /\ SubSeq(result[c].pages, start, start + n - 1) = SourcePagesOf(store, d)

\* a failed entry, then a merged 1-page entry, then a merged 2-page entry
\* whose first page is at position 4
C2_Witness ==
    /\ Done(1)
    /\ Len(selectedDocuments[1]) = 3
    /\ ~Resolves(store, selectedDocuments[1][1])
    /\ PageCount(store, selectedDocuments[1][2]) = 1
    /\ PageCount(store, selectedDocuments[1][3]) = 2
    /\ Recorded(1)[3].pageNumber = 4
    /\ result[1].pages[4] = [src |-> selectedDocuments[1][3].filename, idx |-> 1, draws |-> <<>>]

\* ------------------------------------------------------------------ C3
\* C3: the returned document has exactly 2 + (pages of the successfully
\* merged documents) pages; 2 pages for an empty list.
C3_PageTotal ==
    \A c \in Calls : Done(c) =>
        Len(result[c].pages) = 2 + TotalPages(store, selectedDocuments[c])

\* ------------------------------------------------------------------ C4
\* C4: in the returned document page 1 is the cover page and page 2 is the
\* table-of-contents page carrying the listing with the final numbers; the
\* rewrite added no page, so page 2 is the only table of contents.
C4_FrontMatter ==
    \A c \in Calls : Done(c) =>
        /\ IsCoverPage(result[c].pages[1])
        /\ IsTocPage(result[c].pages[2])
        /\ TocListing(result[c].pages[2]) = FinalEntries(Recorded(c))
        /\ TocPositions(result[c].pages) = {2}

\* ------------------------------------------------------------------ C5
\* C5: the source pages of the returned document are the pages of the
\* successfully merged documents, document after document in list order and
\* page after page in each document's own order, also around failed entries.
C5_SourceOrder ==
    \A c \in Calls : Done(c) =>
        Body(result[c].pages) = ExpectedBody(store, selectedDocuments[c], 1)

\* two different merged documents with a failed entry between them
C5_Witness ==
    /\ Done(1)
    /\ Len(selectedDocuments[1]) = 3
    /\ PageCount(store, selectedDocuments[1][1]) = 2
    /\ ~Resolves(store, selectedDocuments[1][2])
    /\ PageCount(store, selectedDocuments[1][3]) = 2
    /\ selectedDocuments[1][1] # selectedDocuments[1][3]
    /\ Len(Body(result[1].pages)) = 4

\* ------------------------------------------------------------------ C6
\* C6: a failing entry never aborts the build (a build can only stop by
\* returning a document); while the loop runs, the cursor and the document
\* have grown by the pages of the merged entries only, a failing entry adding
\* nothing; and the returned source pages, the final cursor and the start
\* pages of the other entries are those of a build of the list without the
\* failing entries.
C6_FailureIsolation ==
    /\ (~ENABLED Next) => \A c \in Calls : pc[c] # "off" => Done(c) /\ result[c].returned
    /\ \A c \in Calls :
          pc[c] \in {"signing", "fetching", "parsing", "copying", "rewrite"} =>
              /\ currentPageNumber[c] = 3 + PagesBefore(store, selectedDocuments[c], docIndex[c])
              /\ Len(pdfDoc[c]) = 2 + PagesBefore(store, selectedDocuments[c], docIndex[c])
    /\ \A c \in Calls : Done(c) =>
          LET without == GeneratePacket(formData[c],
                                        OnlyResolving(store, selectedDocuments[c]), store)
          IN  /\ result[c].returned
              /\ Body(result[c].pages) = Body(without.bytes.pages)
              /\ Len(result[c].pages) = Len(without.bytes.pages)
              /\ currentPageNumber[c] = without.cursor
              /\ MergedNumbers(Recorded(c)) = Numbers(without.entries)

\* entry 2 of 3 fails at the fetch; entries 1 and 3 are merged
C6_Witness ==
    /\ Done(1)
    /\ Len(selectedDocuments[1]) = 3
    /\ PageCount(store, selectedDocuments[1][1]) = 1
    /\ store[selectedDocuments[1][2].filename].fault = "fetch"
    /\ PageCount(store, selectedDocuments[1][3]) = 2
    /\ Numbers(Recorded(1)) = <<3, 0, 4>>
    /\ result[1].returned

\* ------------------------------------------------------------------ C7
\* C7: the returned document shows one table of contents, and it lists every
\* entry of the input list once and in input order, failed entries included,
\* a failed entry with page reference 0.
C7_TocMembership ==
    \A c \in Calls : Done(c) =>
        /\ Cardinality(TocPositions(result[c].pages)) = 1
        /\ \A p \in TocPositions(result[c].pages) :
              LET listing == TocListing(result[c].pages[p])
              IN  /\ Len(listing) = Len(selectedDocuments[c])
                  /\ \A i \in 1..Len(listing) :
                        /\ listing[i].title = selectedDocuments[c][i].name
                        /\ ~Resolves(store, selectedDocuments[c][i]) =>
                              listing[i].pageNumber = 0

\* a finished build whose second entry failed to parse and is listed with 0
C7_Witness ==
    /\ Done(1)
    /\ Len(selectedDocuments[1]) = 2
    /\ Resolves(store, selectedDocuments[1][1])
    /\ store[selectedDocuments[1][2].filename].fault = "parse"
    /\ \E p \in TocPositions(result[1].pages) :
          /\ Len(TocListing(result[1].pages[p])) = 2
          /\ TocListing(result[1].pages[p])[2] =
                [title |-> selectedDocuments[1][2].name, pageNumber |-> 0]

\* ------------------------------------------------------------------ C8
\* C8: a build whose form data lacks a required field (title, preparedBy,
\* submittedTo, date) fails before any page is added and before any document
\* is fetched, and returns no bytes.
LacksRequired(fd) ==
    \/ fd.productType = Absent
    \/ fd.preparedBy = Absent
    \/ fd.submittedTo = Absent
    \/ fd.date = Absent

C8_InvalidMetadata ==
    \A c \in Calls : LacksRequired(formData[c]) =>
        /\ pdfDoc[c] = <<>>
        /\ pc[c] \notin {"fetching", "parsing", "copying"}
        /\ ~result[c].returned

\* ------------------------------------------------------------------ C9
\* C9: two builds with the same form data and document list, against the
\* same store, return documents with the same number of pages and the same
\* table-of-contents page numbers.
FinalTocNumbers(pages) == {Numbers(TocListing(pages[p])) : p \in TocPositions(pages)}

C9_SameInputsSameNumbers ==
    (/\ Done(1) /\ Done(2)
     /\ formData[1] = formData[2]
     /\ selectedDocuments[1] = selectedDocuments[2]) =>
        /\ Len(result[1].pages) = Len(result[2].pages)
        /\ FinalTocNumbers(result[1].pages) = FinalTocNumbers(result[2].pages)
        /\ Numbers(Recorded(1)) = Numbers(Recorded(2))

\* both builds of the same two merged documents have returned
C9_Witness ==
    /\ Done(1) /\ Done(2)
    /\ selectedDocuments[1] = selectedDocuments[2]
    /\ Len(selectedDocuments[1]) = 2
    /\ PageCount(store, selectedDocuments[1][1]) = 2
    /\ PageCount(store, selectedDocuments[1][2]) = 1
    /\ FinalTocNumbers(result[2].pages) = {<<3, 5>>}

\* ------------------------------------------------------------------ C10
\* C10: whatever the interleaving of two calls, a finished call's returned
\* pages, cursor and recorded start pages are those the call produces when it
\* runs on its own.
C10_CallsIndependent ==
    \A c \in Calls : Done(c) =>
        LET alone == GeneratePacket(formData[c], selectedDocuments[c], store)
        IN  /\ result[c] = alone.bytes
            /\ currentPageNumber[c] = alone.cursor
            /\ Recorded(c) = alone.entries

\* call 1 has returned its two merged documents while call 2, building a
\* different list, is in the middle of its loop
C10_Witness ==
    /\ Done(1)
    /\ pc[2] = "copying" /\ docIndex[2] = 2
    /\ Len(selectedDocuments[1]) = 2
    /\ selectedDocuments[1] # selectedDocuments[2]
    /\ PageCount(store, selectedDocuments[1][1]) = 1
    /\ PageCount(store, selectedDocuments[1][2]) = 2
    /\ Numbers(Recorded(1)) = <<3, 4>>
    /\ currentPageNumber[2] > 3

\* ------------------------------------------------------------------ C11
\* C11: within one build the passes run strictly in sequence.  While an
\* entry is being resolved, the cover page and a table of contents with
\* placeholder number 0 for every entry are already pages 1 and 2; the
\* entries before the current one have all been merged or have failed, the
\* current and later ones are untouched; the requests in flight are those of
\* the current entry; the loop moves one entry at a time; and a table of
\* contents with final numbers exists only when every entry has been merged
\* or has failed.
Resolving(c) == pc[c] \in {"signing", "fetching", "parsing", "copying"}

FrontMatterDrafted(c) ==
    /\ Len(pdfDoc[c]) >= 2
    /\ IsCoverPage(pdfDoc[c][1])
    /\ IsTocPage(pdfDoc[c][2])
    /\ LET listing == TocListing(pdfDoc[c][2])
       IN  /\ Len(listing) = Len(selectedDocuments[c])
           /\ \A i \in 1..Len(listing) :
                 /\ listing[i].title = selectedDocuments[c][i].name
                 /\ listing[i].pageNumber = 0

FinalTocDrawn(c) ==
    \/ pc[c] \in {"save", "done"}
    \/ \E p \in 3..Len(pdfDoc[c]) : IsTocPage(pdfDoc[c][p])
    \/ Len(pdfDoc[c]) >= 2 /\ LastRect(pdfDoc[c][2].draws) > 0

C11_Passes ==
    \A c \in Calls :
        /\ pc[c] \in {"start", "cover", "toc", "accounting"} =>
              /\ Body(pdfDoc[c]) = <<>>
              /\ documentUrl[c] = NoUrl /\ pdfBytes[c] = NoBytes /\ pdf[c] = <<>>
        /\ Resolving(c) =>
              /\ FrontMatterDrafted(c)
              /\ docIndex[c] \in 1..Len(selectedDocuments[c])
              /\ Body(pdfDoc[c]) =
                    ExpectedBody(store, SubSeq(selectedDocuments[c], 1, docIndex[c] - 1), 1)
              /\ \A j \in 1..Len(selectedDocuments[c]) :
                    /\ j >= docIndex[c] => Recorded(c)[j].pageNumber = 0
                    /\ j < docIndex[c] =>
                          (Recorded(c)[j].pageNumber # 0
                              <=> Resolves(store, selectedDocuments[c][j]))
              /\ documentUrl[c] # NoUrl =>
                    documentUrl[c][2] = selectedDocuments[c][docIndex[c]].filename
              /\ pdfBytes[c] # NoBytes =>
                    pdfBytes[c].object = selectedDocuments[c][docIndex[c]].filename
        /\ FinalTocDrawn(c) => docIndex[c] = Len(selectedDocuments[c]) + 1

C11_OneAtATime ==
    \A c \in Calls :
        docIndex'[c] # docIndex[c] =>
            /\ docIndex'[c] = docIndex[c] + 1
            /\ pc[c] \in {"accounting", "signing", "fetching", "parsing", "copying"}
            /\ pc'[c] \in {"signing", "rewrite"}

C11_Sequenced == []C11_Passes /\ [][C11_OneAtATime]_vars

\* entry 1 is merged, entry 2 is being fetched, entry 3 is untouched, and
\* page 2 still shows the placeholder listing
C11_Witness ==
    /\ pc[1] = "fetching"
    /\ docIndex[1] = 2
    /\ Len(selectedDocuments[1]) = 3
    /\ Numbers(Recorded(1)) = <<3, 0, 0>>
    /\ Len(pdfDoc[1]) = 4
    /\ Numbers(TocListing(pdfDoc[1][2])) = <<0, 0, 0>>

\* ------------------------------------------------------------------ C15
\* C15: when every signed-URL request, fetch and parse eventually returns or
\* fails, every build over a finite list eventually returns; no entry is
\* attempted twice (the loop position never stays on an entry that has
\* failed, and never goes back).
C15_NoRetry ==
    \A c \in Calls :
        /\ docIndex'[c] >= docIndex[c]
        /\ (Resolving(c) /\ pc'[c] = "signing") => docIndex'[c] = docIndex[c] + 1

C15_Terminates ==
    /\ \A c \in Calls : (pc[c] # "off") ~> (Done(c) /\ result[c].returned)
    /\ [][C15_NoRetry]_vars

\* a build of three entries, the first two failing, has returned
C15_Witness ==
    /\ Done(1) /\ result[1].returned
    /\ Len(selectedDocuments[1]) = 3
    /\ store[selectedDocuments[1][1].filename].fault = "sign"
    /\ store[selectedDocuments[1][2].filename].fault = "parse"
    /\ Resolves(store, selectedDocuments[1][3])
    /\ docIndex[1] = 4

\* ------------------------------------ DocumentService: upload and delete
\* The files an admin may pick: two PDFs and a file that is no PDF.
PdfHead == <<"%", "P", "D", "F", "-">>

UploadFiles ==
    {[name |-> "a.pdf", type |-> "application/pdf", size |-> 204800, head |-> PdfHead,
      pages |-> 1],
     [name |-> "b.pdf", type |-> "application/pdf", size |-> 409600, head |-> PdfHead,
      pages |-> 2],
     [name |-> "scan.png", type |-> "image/png", size |-> 204800,
      head |-> <<"P", "N", "G", " ", " ">>, pages |-> 0]}

ProductTypes == {"structural-floor"}

ValidatePDF(file) ==
    /\ file.type = "application/pdf"
    /\ file.size <= 50 * 1024 * 1024
    /\ file.size >= 1024
    /\ SubSeq(file.head, 1, 4) = <<"%", "P", "D", "F">>

\* extractDocumentName(file.name, detectDocumentType(file.name)) for the files above
ExtractDocumentName(fileName) ==
    CASE fileName = "a.pdf" -> "A"
      [] fileName = "b.pdf" -> "B"
      [] OTHER -> "Scan.png"

\* `${productType}/${Date.now()}-${random}.${fileExt}`: a key no earlier
\* upload has used, never equal to a file name (it holds a '/')
PathTable ==
    <<"structural-floor/1001-k3x9.pdf", "structural-floor/1002-p0q2.pdf",
      "structural-floor/1003-m7d1.pdf", "structural-floor/1004-z5w8.pdf">>

FilePath(productType, tick) == PathTable[tick]

StoragePaths == {PathTable[t] : t \in 1..Len(PathTable)}

ObjectAbsent == [fault |-> "sign", pages |-> 0]

StoredObject(pages) == [fault |-> "none", pages |-> pages]

HasObject(st, key) == st[key] # ObjectAbsent

\* the insert of uploadDocument: filename is the file's own name, file_path the
\* key; the row's id (generated by the database) is the tick of its upload
NewRow(id, op) ==
    [id |-> id, name |-> ExtractDocumentName(op.name), filename |-> op.name,
     file_path |-> op.path]

\* getAllDocuments / getDocument: row -> Document
ToDocument(row) == [name |-> row.name, filename |-> row.filename, url |-> row.file_path]

\* if (uploadError) throw: the upload ends, nothing is inserted
AfterUploadErrorIgnored == "inserting"

AfterUploadError == "idle"

Finish(op, outcome) == [NoOp EXCEPT !.outcome = outcome]

\* uploadDocument: validatePDF, then the name and the storage key
BeginUpload(o) ==
    /\ ops[o].pc = "idle"
    /\ clock < MaxUploads
    /\ \E file \in UploadFiles, productType \in ProductTypes :
          IF ~ValidatePDF(file)
          THEN /\ ops' = [ops EXCEPT ![o] = Finish(@, "rejected")]
               /\ UNCHANGED clock
          ELSE /\ clock' = clock + 1
               /\ ops' = [ops EXCEPT ![o] =
                     [pc |-> "storing", name |-> file.name, pages |-> file.pages,
                      productType |-> productType,
                      path |-> FilePath(productType, clock + 1), id |-> clock + 1,
                      outcome |-> "none"]]
    /\ UNCHANGED <<store, documentsTable, packetVars, authVars>>

\* await supabase.storage.from('documents').upload(filePath, file)
StoreObject(o) ==
    /\ ops[o].pc = "storing"
    /\ \E uploadError \in BOOLEAN :
          IF uploadError \/ HasObject(store, ops[o].path)
          THEN /\ ops' = [ops EXCEPT ![o] =
                     IF AfterUploadError = "idle" THEN Finish(@, "upload-failed")
                     ELSE [@ EXCEPT !.pc = AfterUploadError]]
               /\ UNCHANGED store
          ELSE /\ store' = [store EXCEPT ![ops[o].path] = StoredObject(ops[o].pages)]
               /\ ops' = [ops EXCEPT ![o].pc = "inserting"]
    /\ UNCHANGED <<documentsTable, clock, packetVars, authVars>>

\* await supabase.from('documents').insert([...]).select().single()
InsertRow(o) ==
    /\ ops[o].pc = "inserting"
    /\ \E insertError \in BOOLEAN :
          IF insertError
          THEN /\ ops' = [ops EXCEPT ![o].pc = "cleanup"]
               /\ UNCHANGED <<documentsTable, clock>>
          ELSE /\ documentsTable' = documentsTable \cup {NewRow(ops[o].id, ops[o])}
               /\ UNCHANGED clock
               /\ ops' = [ops EXCEPT ![o] = Finish(@, "uploaded")]
    /\ UNCHANGED <<store, packetVars, authVars>>

\* if (insertError): await supabase.storage.from('documents').remove([filePath]); throw
RemoveAfterInsertError(o) ==
    /\ ops[o].pc = "cleanup"
    /\ \E removeError \in BOOLEAN :
          store' = IF removeError THEN store
                   ELSE [store EXCEPT ![ops[o].path] = ObjectAbsent]
    /\ ops' = [ops EXCEPT ![o] = Finish(@, "insert-failed")]
    /\ UNCHANGED <<documentsTable, clock, packetVars, authVars>>

\* deleteDocument(id): const doc = await this.getDocument(id)
BeginDelete(o) ==
    /\ ops[o].pc = "idle"
    /\ \E id \in 0..MaxUploads, selectError \in BOOLEAN :
          LET rows == {r \in documentsTable : r.id = id}
          IN  IF selectError \/ rows = {}
              THEN ops' = [ops EXCEPT ![o] = Finish(@, "not-found")]
              ELSE \E r \in rows :
                      ops' = [ops EXCEPT ![o] =
                          [NoOp EXCEPT !.pc = "deleting-row", !.id = r.id,
                                       !.path = ToDocument(r).url]]
    /\ UNCHANGED <<store, documentsTable, clock, packetVars, authVars>>

\* await supabase.from('documents').delete().eq('id', id)
DeleteRow(o) ==
    /\ ops[o].pc = "deleting-row"
    /\ \E deleteError \in BOOLEAN :
          IF deleteError
          THEN /\ ops' = [ops EXCEPT ![o] = Finish(@, "delete-failed")]
               /\ UNCHANGED documentsTable
          ELSE /\ documentsTable' = {r \in documentsTable : r.id # ops[o].id}
               /\ ops' = [ops EXCEPT ![o].pc = "removing-object"]
    /\ UNCHANGED <<store, clock, packetVars, authVars>>

\* await supabase.storage.from('documents').remove([doc.url]): its error is not read
RemoveObject(o) ==
    /\ ops[o].pc = "removing-object"
    /\ \E removeError \in BOOLEAN :
          store' = IF removeError THEN store
                   ELSE [store EXCEPT ![ops[o].path] = ObjectAbsent]
    /\ ops' = [ops EXCEPT ![o] = Finish(@, "deleted")]
    /\ UNCHANGED <<documentsTable, clock, packetVars, authVars>>

\* the admin selects documents listed by getAllDocuments and starts a build
RECURSIVE SeqsOf(_, _)
SeqsOf(S, n) ==
    IF n = 0 THEN {<<>>}
    ELSE SeqsOf(S, n - 1) \cup {Append(q, x) : q \in SeqsOf(S, n - 1), x \in S}

SelectDocuments(c) ==
    /\ pc[c] = "idle"
    /\ \E docs \in SeqsOf({ToDocument(r) : r \in documentsTable}, MaxSelected) :
          /\ docs # <<>>
          /\ selectedDocuments' = [selectedDocuments EXCEPT ![c] = docs]
    /\ pc' = [pc EXCEPT ![c] = "start"]
    /\ UNCHANGED <<store, formData, pdfDoc, currentPageNumber, documentsWithPageNumbers,
                   docIndex, documentUrl, pdfBytes, pdf, result, adminVars, authVars>>

\* a document put in place by hand: its object lies in the bucket under the
\* file's own name
SeededRow ==
    [id |-> 0, name |-> "Install Guide C", filename |-> "c.pdf", file_path |-> "c.pdf"]

\* a bucket and a table that hold the seeded document only; call 1 waits for
\* a selection
InitAdmin ==
    /\ store = [k \in Locators \cup StoragePaths |->
                  IF k = SeededRow.file_path THEN StoredObject(1) ELSE ObjectAbsent]
    /\ documentsTable = {SeededRow}
    /\ clock = 0
    /\ ops = [o \in Ops |-> NoOp]
    /\ InitAuthIdle
    /\ formData = [c \in Calls |-> CompleteFormData]
    /\ selectedDocuments = [c \in Calls |-> <<>>]
    /\ pc = [c \in Calls |-> IF c = 1 THEN "idle" ELSE "off"]
    /\ InitLocals

AdminStep(o) ==
    \/ BeginUpload(o)
    \/ StoreObject(o)
    \/ InsertRow(o)
    \/ RemoveAfterInsertError(o)
    \/ BeginDelete(o)
    \/ DeleteRow(o)
    \/ RemoveObject(o)

\* uploads and deletes, two of them under way at a time
NextUpload == \E o \in Ops : AdminStep(o)

SpecUpload == InitAdmin /\ [][NextUpload]_vars

\* one admin who uploads, deletes, and builds a packet of listed documents
NextAdmin ==
    \/ AdminStep(1)
    \/ \E c \in Calls : SelectDocuments(c) \/ Step(c)

SpecAdmin == InitAdmin /\ [][NextAdmin]_vars

\* ------------------------------------------------------------------ C12
\* C12: a document stored by uploadDocument and selected for a packet is
\* resolvable: the locator generatePacket passes to the signed-URL request is
\* the storage key of the uploaded object, and when the build has returned,
\* every selected document whose row and object are still there was merged.
Uploaded(d) == d.url \in StoragePaths

C12_UploadedResolvable ==
    \A c \in Calls :
        /\ (Resolving(c) /\ Uploaded(selectedDocuments[c][docIndex[c]])) =>
              SignedLocator(selectedDocuments[c][docIndex[c]])
                  = selectedDocuments[c][docIndex[c]].url
        /\ Done(c) =>
              \A i \in 1..Len(selectedDocuments[c]) :
                  (/\ Uploaded(selectedDocuments[c][i])
                   /\ \E r \in documentsTable : ToDocument(r) = selectedDocuments[c][i]
                   /\ HasObject(store, selectedDocuments[c][i].url))
                  => Recorded(c)[i].pageNumber # 0

\* ------------------------------------------------------------------ C13
\* C13: whatever uploads and deletes have run or are under way, and whichever
\* of their backend steps failed, every row of the documents table names an
\* object that is in storage.
C13_RowsHaveObjects ==
    \A r \in documentsTable : HasObject(store, r.file_path)

\* one upload has left a row with its object, another lost its insert and
\* took its object back out, while a delete of the row is about to run
C13_Witness ==
    /\ \E r \in documentsTable : HasObject(store, r.file_path)
    /\ \E o \in Ops : ops[o].outcome = "insert-failed"
    /\ \E o \in Ops : ops[o].pc = "deleting-row"
    /\ \E k \in StoragePaths : ~HasObject(store, k)
    /\ clock = 2

\* ------------------------------------------------------------------ session
\* rows of the users table: id, email, password_hash
Hash(password) == <<"$2a$10$", password>>

Users ==
    {[id |-> "u1", email |-> "admin@example.com", password_hash |-> Hash("s3cret")],
     [id |-> "u2", email |-> "ops@example.com", password_hash |-> Hash("hunter2")]}

Emails == {u.email : u \in Users} \cup {"nobody@example.com"}

Passwords == {"s3cret", "hunter2"}

\* bcrypt.compare(password, data.password_hash)
BcryptCompare(password, hash) == Hash(password) = hash

\* JSON.stringify({id, email})
JSONStringify(user) == <<"{", "id", ":", user.id, ",", "email", ":", user.email, "}">>

IsJSONUser(text) ==
    /\ Len(text) = 9
    /\ <<text[1], text[2], text[3], text[5], text[6], text[7], text[9]>>
          = <<"{", "id", ":", ",", "email", ":", "}">>

\* JSON.parse(stored), for a text that parses
JSONParse(text) == [id |-> text[4], email |-> text[8]]

\* getCurrentUser(): the user it returns and the currentUser it leaves
GetCurrentUser(user, stored) ==
    IF user # NoUser THEN [returned |-> user, currentUser |-> user]
    ELSE IF stored # NoItem /\ IsJSONUser(stored)
         THEN [returned |-> JSONParse(stored), currentUser |-> JSONParse(stored)]
         ELSE [returned |-> NoUser, currentUser |-> user]

\* isAuthenticated(): getCurrentUser() !== null
IsAuthenticated(user, stored) == GetCurrentUser(user, stored).returned # NoUser

\* a login that has returned: the record of its outcome
Returned(outcome, changed) == [NoLogin EXCEPT !.outcome = outcome, !.changed = changed]

\* login(email, password) up to its first await: the users query is sent
LoginBegin ==
    /\ login.pc = "idle"
    /\ \E email \in Emails, password \in Passwords :
          login' = [NoLogin EXCEPT !.pc = "querying", !.email = email,
                                   !.password = password]
    /\ UNCHANGED <<currentUser, localStorage, lastEffective, rendered>>
    /\ UNCHANGED <<store, packetVars, adminVars>>

\* the query resolves: if (error || !data) return failure; else bcrypt.compare
LoginQuery ==
    /\ login.pc = "querying"
    /\ \E error \in BOOLEAN :
          LET rows == {u \in Users : u.email = login.email}
          IN  IF error \/ rows = {}
              THEN login' = Returned("failed", FALSE)
              ELSE \E data \in rows :
                      login' = [login EXCEPT !.pc = "comparing",
                                   !.data = [id |-> data.id, email |-> data.email],
                                   !.hash = data.password_hash]
    /\ UNCHANGED <<currentUser, localStorage, lastEffective, rendered>>
    /\ UNCHANGED <<store, packetVars, adminVars>>

\* the comparison resolves: on a match this.currentUser is assigned, then
\* localStorage.setItem runs; setItem may throw (QuotaExceededError), and the
\* catch of login turns that into a failure
LoginCompare ==
    /\ login.pc = "comparing"
    /\ IF ~BcryptCompare(login.password, login.hash)
       THEN /\ login' = Returned("failed", FALSE)
            /\ UNCHANGED <<currentUser, localStorage, lastEffective, rendered>>
       ELSE /\ currentUser' = login.data
            /\ \E setItemThrows \in BOOLEAN :
                  IF setItemThrows
                  THEN /\ login' = Returned("failed", login.data # currentUser)
                       /\ UNCHANGED <<localStorage, lastEffective>>
                  ELSE /\ localStorage' = JSONStringify(login.data)
                       /\ login' = Returned("success", TRUE)
                       /\ lastEffective' = "login"
            /\ rendered' = "nothing"
    /\ UNCHANGED <<store, packetVars, adminVars>>

\* logout(): no await inside, it runs in one piece, also while a login waits
Logout ==
    /\ currentUser' = NoUser
    /\ localStorage' = NoItem
    /\ lastEffective' = "logout"
    /\ rendered' = "nothing"
    /\ UNCHANGED login
    /\ UNCHANGED <<store, packetVars, adminVars>>

\* the page is loaded again: a new AuthService, the same localStorage
Reload ==
    /\ currentUser' = NoUser
    /\ login' = NoLogin
    /\ rendered' = "nothing"
    /\ UNCHANGED <<localStorage, lastEffective>>
    /\ UNCHANGED <<store, packetVars, adminVars>>

\* ProtectedRoute: Navigate to /admin unless isAuthenticated(), else children
RenderProtectedRoute ==
    /\ currentUser' = GetCurrentUser(currentUser, localStorage).currentUser
    /\ rendered' = IF IsAuthenticated(currentUser, localStorage)
                   THEN "children" ELSE "redirect"
    /\ UNCHANGED <<localStorage, login, lastEffective>>
    /\ UNCHANGED <<store, packetVars, adminVars>>

NextAuth ==
    \/ LoginBegin
    \/ LoginQuery
    \/ LoginCompare
    \/ Logout
    \/ Reload
    \/ RenderProtectedRoute

\* an empty session store, no user, nothing rendered
SpecAuth == InitAdmin /\ [][NextAuth]_vars

\* ------------------------------------------------------------------ C14
\* C14: from an empty session store, isAuthenticated() is true exactly when
\* the latest of the successful logins and the logouts was a successful login;
\* a login that returned a failure changed neither the current user nor the
\* stored entry; ProtectedRoute shows its children only when authenticated.
C14_AuthenticatedIffLastLogin ==
    /\ IsAuthenticated(currentUser, localStorage) <=> (lastEffective = "login")
    /\ login.outcome = "failed" => ~login.changed
    /\ rendered = "children" => IsAuthenticated(currentUser, localStorage)
    /\ rendered = "redirect" => ~IsAuthenticated(currentUser, localStorage)

====
